---- MODULE Spec2Model ----
(***************************************************************************)
(* Model of server.py: the Flask handler transcribe() of                   *)
(* POST /api/transcribe, run by concurrent request threads that share the  *)
(* module-level threading.Lock, the wall clock and the upload directory.   *)
(*                                                                         *)
(* Strings are sequences of one-character strings, so that rsplit, lower   *)
(* and the concatenation that builds the stored name are computed.         *)
(* A JSON object is the sequence of its keys and values.                   *)
(***************************************************************************)
EXTENDS Integers, Sequences, FiniteSets, TLC

\* ------------------------------------------------------------------ bounds
\* Number of request threads that arrive.
NumRequests == 2
\* The clock reads T0 when the first request arrives and ticks MaxTicks times.
T0 == 9
MaxTicks == 1

Requests == 1..NumRequests

\* --------------------------------------------------------------- constants
\* server.py:8
UPLOAD_FOLDER == <<"u", "p", "l", "o", "a", "d", "s">>
\* server.py:9
ALLOWED_EXTENSIONS == { <<"m", "4", "a">>, <<"m", "p", "3">>, <<"w", "a", "v">> }

\* ------------------------------------------------------------------ inputs
\* The declared file names the requests draw from.
FileNames ==
    { <<>>,                                             \* ""
      <<"n", "o", "t", "e", "s">>,                      \* "notes"
      <<"n", "o", "t", "e", "s", ".", "t", "x", "t">>,  \* "notes.txt"
      <<"a", ".">>,                                     \* "a."
      <<"c", "l", "i", "p", ".", "W", "A", "V">>,       \* "clip.WAV"
      <<"a", ".", "w", "a", "v">>,                      \* "a.wav"
      <<"x", ".", "y", ".", "M", "p", "3">> }           \* "x.y.Mp3"

\* request.files of one request: whether the part 'file' is there, and the
\* filename of that part (None when hasName is FALSE).
NoFilePart == [hasFile |-> FALSE, hasName |-> FALSE, name |-> <<>>]
Inputs ==
    { NoFilePart, [hasFile |-> TRUE, hasName |-> FALSE, name |-> <<>>] }
    \cup { [hasFile |-> TRUE, hasName |-> TRUE, name |-> n] : n \in FileNames }

\* What mlx_whisper.transcribe may return: the engine is external, its result
\* an opaque object.
Results == { <<"text", "ohayou">>, <<"text", "konbanwa">> }

\* ----------------------------------------------------------- str functions
UpperCase == <<"A", "B", "C", "D", "E", "F", "G", "H", "I", "J", "K", "L", "M",
               "N", "O", "P", "Q", "R", "S", "T", "U", "V", "W", "X", "Y", "Z">>
LowerCase == <<"a", "b", "c", "d", "e", "f", "g", "h", "i", "j", "k", "l", "m",
               "n", "o", "p", "q", "r", "s", "t", "u", "v", "w", "x", "y", "z">>

LowerChar(c) ==
    IF \E i \in 1..26 : UpperCase[i] = c
    THEN LowerCase[CHOOSE i \in 1..26 : UpperCase[i] = c]
    ELSE c

\* str.lower()
Lower(s) == [i \in 1..Len(s) |-> LowerChar(s[i])]

\* s.rsplit('.', 1): the list of the parts, split at the last '.'.
RSplit1(s) ==
    IF \E i \in 1..Len(s) : s[i] = "."
    THEN LET k == CHOOSE i \in 1..Len(s) :
                    /\ s[i] = "."
                    /\ \A j \in (i + 1)..Len(s) : s[j] # "."
         IN  << SubSeq(s, 1, k - 1), SubSeq(s, k + 1, Len(s)) >>
    ELSE << s >>

Digit(d) == <<"0", "1", "2", "3", "4", "5", "6", "7", "8", "9">>[d + 1]

\* str(n) of an integer n >= 0.
RECURSIVE Str(_)
Str(n) == IF n < 10 THEN << Digit(n) >> ELSE Str(n \div 10) \o << Digit(n % 10) >>

\* os.path.join(folder, filename)
PathJoin(folder, filename) == folder \o <<"/">> \o filename

\* jsonify(obj): a JSON response whose data is the object.
Jsonify(obj) == [mimetype |-> "application/json", data |-> obj]

\* The response to an exception that leaves the handler: transcribe() has no
\* except clause, so the WSGI layer answers 500 with its own error page.
ErrorPage(exc) == [mimetype |-> "text/html", data |-> <<exc>>]

NoResponse == [status |-> 0, body |-> [mimetype |-> "", data |-> <<>>]]

\* ------------------------------------------------------------------- state
VARIABLES
    pc,              \* where each request thread is in transcribe()
    req,             \* request.files of each request
    ext,             \* local ext
    filename,        \* local filename
    saved_filename,  \* local saved_filename
    result,          \* local result
    exc,             \* the exception a request thread is unwinding with, or ""
    resp,            \* the response each request was answered with
    lock,            \* threading.Lock(): TRUE when locked
    uploads,         \* the upload directory: path -> the request whose bytes it holds
    now,             \* int(time.time())
    \* history, never read by the handler:
    tName,           \* the clock the stored name of a request was made from
    nSaves,          \* writes to the upload directory per request
    nAcquires,       \* acquisitions of the lock per request
    nCalls,          \* engine invocations per request
    callPath,        \* the path a request's engine call was given
    engineOut        \* what the engine returned to a request's call

locals == <<req, ext, filename, saved_filename, result, exc, resp>>
history == <<tName, nSaves, nAcquires, nCalls, callPath, engineOut>>
vars == <<pc, locals, lock, uploads, now, history>>

\* The request's engine call raised.
EngineFailed(r) == exc[r] = "EngineError"

\* The request is inside the `with lock:` block of lines 42-43.
InWith(r) == pc[r] \in {"call", "running", "exit_with"}

\* The instrumented count of engine calls in flight.
ActiveCalls == Cardinality({r \in Requests : pc[r] = "running"})

Init ==
    /\ pc = [r \in Requests |-> "start"]
    /\ req = [r \in Requests |-> NoFilePart]
    /\ ext = [r \in Requests |-> <<>>]
    /\ filename = [r \in Requests |-> <<>>]
    /\ saved_filename = [r \in Requests |-> <<>>]
    /\ result = [r \in Requests |-> <<>>]
    /\ exc = [r \in Requests |-> ""]
    /\ resp = [r \in Requests |-> NoResponse]
    /\ lock = FALSE
    /\ uploads = << >>
    /\ now = T0
    /\ tName = [r \in Requests |-> 0]
    /\ nSaves = [r \in Requests |-> 0]
    /\ nAcquires = [r \in Requests |-> 0]
    /\ nCalls = [r \in Requests |-> 0]
    /\ callPath = [r \in Requests |-> <<>>]
    /\ engineOut = [r \in Requests |-> <<>>]

\* -------------------------------------------------------------- validation
Reject(msg) == [kind |-> "respond", error |-> msg, ext |-> <<>>]
Raise(e) == [kind |-> "raise", error |-> e, ext |-> <<>>]
Accept(e) == [kind |-> "accept", error |-> "", ext |-> e]

\* Validation with the membership test of line 37 left out.
ValidationAnyExtension(rq) ==
    IF ~rq.hasFile THEN Reject("No file provided")
    ELSE IF rq.hasName /\ rq.name = <<>> THEN Reject("No file selected")
    ELSE IF ~rq.hasName \/ rq.name = <<>> THEN Reject("Invalid filename")
    ELSE LET parts == RSplit1(rq.name) IN
         IF Len(parts) < 2 THEN Raise("IndexError")
         ELSE LET e == Lower(parts[2]) IN
              IF e # <<>> THEN Accept(e) ELSE Reject("Invalid file format")

\* Validation with the file name tests of lines 30-34 left out.
ValidationNoNameChecks(rq) ==
    IF ~rq.hasFile THEN Reject("No file provided")
    ELSE LET parts == RSplit1(rq.name) IN
         IF Len(parts) < 2 THEN Raise("IndexError")
         ELSE LET e == Lower(parts[2]) IN
              IF e # <<>> /\ e \in ALLOWED_EXTENSIONS
              THEN Accept(e)
              ELSE Reject("Invalid file format")

\* Validation with the .lower() of line 36 left out.
ValidationCaseSensitive(rq) ==
    IF ~rq.hasFile THEN Reject("No file provided")
    ELSE IF rq.hasName /\ rq.name = <<>> THEN Reject("No file selected")
    ELSE IF ~rq.hasName \/ rq.name = <<>> THEN Reject("Invalid filename")
    ELSE LET parts == RSplit1(rq.name) IN
         IF Len(parts) < 2 THEN Raise("IndexError")
         ELSE LET e == parts[2] IN
              IF e # <<>> /\ e \in ALLOWED_EXTENSIONS
              THEN Accept(e)
              ELSE Reject("Invalid file format")

\* Lines 26-37 and 48 of transcribe(): the checks in the order of the code.
Validation(rq) ==
    IF ~rq.hasFile THEN Reject("No file provided")                  \* 26-27
    ELSE IF rq.hasName /\ rq.name = <<>>                            \* 30-31
         THEN Reject("No file selected")
    ELSE IF ~rq.hasName \/ rq.name = <<>>                           \* 33-34
         THEN Reject("Invalid filename")
    ELSE LET parts == RSplit1(rq.name) IN                           \* 36
         IF Len(parts) < 2 THEN Raise("IndexError")
         ELSE LET e == Lower(parts[2]) IN
              IF e # <<>> /\ e \in ALLOWED_EXTENSIONS               \* 37
              THEN Accept(e)
              ELSE Reject("Invalid file format")                    \* 48

\* ----------------------------------------------------------------- actions
\* A request arrives and its handler thread runs lines 22-37 and 48, which
\* touch nothing the threads share: answer 400, raise, or go on with ext.
Validate(r) ==
    /\ pc[r] = "start"
    /\ \E rq \in Inputs :
       LET v == Validation(rq) IN
       /\ req' = [req EXCEPT ![r] = rq]
       /\ ext' = [ext EXCEPT ![r] = v.ext]
       /\ exc' = [exc EXCEPT ![r] = IF v.kind = "raise" THEN v.error ELSE @]
       /\ resp' = [resp EXCEPT ![r] =
                      IF v.kind = "respond"
                      THEN [status |-> 400, body |-> Jsonify(<<"error", v.error>>)]
                      ELSE @]
       /\ pc' = [pc EXCEPT ![r] =
                      CASE v.kind = "respond" -> "done"
                        [] v.kind = "raise" -> "raised"
                        [] v.kind = "accept" -> "name"]
    /\ UNCHANGED <<filename, saved_filename, result,
                   lock, uploads, now, history>>

\* Lines 38-39 with the extension left out of the name.
NameFileNoExtension(r) ==
    /\ pc[r] = "name"
    /\ filename' = [filename EXCEPT ![r] = Str(now)]
    /\ saved_filename' = [saved_filename EXCEPT ![r] =
                              PathJoin(UPLOAD_FOLDER, filename'[r])]
    /\ tName' = [tName EXCEPT ![r] = now]
    /\ pc' = [pc EXCEPT ![r] = "save"]
    /\ UNCHANGED <<req, ext, result, exc, resp, lock, uploads, now,
                   nSaves, nAcquires, nCalls, callPath, engineOut>>

\* Lines 38-39 with the timestamp left out of the name.
NameFileNoTimestamp(r) ==
    /\ pc[r] = "name"
    /\ filename' = [filename EXCEPT ![r] =
                        <<"u", "p", "l", "o", "a", "d", ".">> \o ext[r]]
    /\ saved_filename' = [saved_filename EXCEPT ![r] =
                              PathJoin(UPLOAD_FOLDER, filename'[r])]
    /\ tName' = [tName EXCEPT ![r] = now]
    /\ pc' = [pc EXCEPT ![r] = "save"]
    /\ UNCHANGED <<req, ext, result, exc, resp, lock, uploads, now,
                   nSaves, nAcquires, nCalls, callPath, engineOut>>

\* Lines 38-39: the stored name from the clock and ext.
NameFile(r) ==
    /\ pc[r] = "name"
    /\ filename' = [filename EXCEPT ![r] = Str(now) \o <<".">> \o ext[r]]
    /\ saved_filename' = [saved_filename EXCEPT ![r] =
                              PathJoin(UPLOAD_FOLDER, filename'[r])]
    /\ tName' = [tName EXCEPT ![r] = now]
    /\ pc' = [pc EXCEPT ![r] = "save"]
    /\ UNCHANGED <<req, ext, result, exc, resp, lock, uploads, now,
                   nSaves, nAcquires, nCalls, callPath, engineOut>>

\* file.save moved into the `with lock:` block: the write waits for the lock.
SaveUnderLock(r) ==
    /\ pc[r] = "save"
    /\ ~lock
    /\ uploads' = [p \in DOMAIN uploads \cup {saved_filename[r]} |->
                      IF p = saved_filename[r] THEN r ELSE uploads[p]]
    /\ nSaves' = [nSaves EXCEPT ![r] = @ + 1]
    /\ pc' = [pc EXCEPT ![r] = "acquire"]
    /\ UNCHANGED <<locals, lock, now,
                   tName, nAcquires, nCalls, callPath, engineOut>>

\* Line 40: file.save(saved_filename) creates or overwrites the file.
Save(r) ==
    /\ pc[r] = "save"
    /\ uploads' = [p \in DOMAIN uploads \cup {saved_filename[r]} |->
                      IF p = saved_filename[r] THEN r ELSE uploads[p]]
    /\ nSaves' = [nSaves EXCEPT ![r] = @ + 1]
    /\ pc' = [pc EXCEPT ![r] = "acquire"]
    /\ UNCHANGED <<locals, lock, now,
                   tName, nAcquires, nCalls, callPath, engineOut>>

\* Line 40 wrapped in `try: ... except OSError: pass`: the failure is noted
\* and the handler goes on to the lock and the engine.
SaveFailSwallowed(r) ==
    /\ pc[r] = "save"
    /\ exc' = [exc EXCEPT ![r] = "OSError"]
    /\ pc' = [pc EXCEPT ![r] = "acquire"]
    /\ UNCHANGED <<req, ext, filename, saved_filename, result, resp,
                   lock, uploads, now, history>>

\* Line 40 when the write fails: file.save raises OSError.
SaveFail(r) ==
    /\ pc[r] = "save"
    /\ exc' = [exc EXCEPT ![r] = "OSError"]
    /\ pc' = [pc EXCEPT ![r] = "raised"]
    /\ UNCHANGED <<req, ext, filename, saved_filename, result, resp,
                   lock, uploads, now, history>>

\* The engine call moved out of the `with lock:` block: line 43 is reached
\* without the lock being taken.
AcquireSkipped(r) ==
    /\ pc[r] = "acquire"
    /\ pc' = [pc EXCEPT ![r] = "call"]
    /\ UNCHANGED <<locals, lock, uploads, now, history>>

\* lock.acquire(timeout=...) in place of `with lock:`: a request that finds
\* the lock taken gives up with an exception.
AcquireOrGiveUp(r) ==
    /\ pc[r] = "acquire"
    /\ IF lock
       THEN /\ exc' = [exc EXCEPT ![r] = "TimeoutError"]
            /\ pc' = [pc EXCEPT ![r] = "raised"]
            /\ UNCHANGED <<req, ext, filename, saved_filename, result, resp,
                           lock, uploads, now, history>>
       ELSE /\ lock' = TRUE
            /\ nAcquires' = [nAcquires EXCEPT ![r] = @ + 1]
            /\ pc' = [pc EXCEPT ![r] = "call"]
            /\ UNCHANGED <<locals, uploads, now,
                           tName, nSaves, nCalls, callPath, engineOut>>

\* Line 42 entered without waiting for the lock to be free.
AcquireNoWait(r) ==
    /\ pc[r] = "acquire"
    /\ lock' = TRUE
    /\ nAcquires' = [nAcquires EXCEPT ![r] = @ + 1]
    /\ pc' = [pc EXCEPT ![r] = "call"]
    /\ UNCHANGED <<locals, uploads, now,
                   tName, nSaves, nCalls, callPath, engineOut>>

\* Line 42: `with lock:` enters when the lock is free, and blocks otherwise.
Acquire(r) ==
    /\ pc[r] = "acquire"
    /\ ~lock
    /\ lock' = TRUE
    /\ nAcquires' = [nAcquires EXCEPT ![r] = @ + 1]
    /\ pc' = [pc EXCEPT ![r] = "call"]
    /\ UNCHANGED <<locals, uploads, now,
                   tName, nSaves, nCalls, callPath, engineOut>>

\* Line 43: mlx_whisper.transcribe(saved_filename, ...) is entered.
EngineStart(r) ==
    /\ pc[r] = "call"
    /\ nCalls' = [nCalls EXCEPT ![r] = @ + 1]
    /\ callPath' = [callPath EXCEPT ![r] = saved_filename[r]]
    /\ pc' = [pc EXCEPT ![r] = "running"]
    /\ UNCHANGED <<locals, lock, uploads, now,
                   tName, nSaves, nAcquires, engineOut>>

\* Line 43: the engine returns a result object.
EngineReturn(r) ==
    /\ pc[r] = "running"
    /\ \E R \in Results :
          /\ result' = [result EXCEPT ![r] = R]
          /\ engineOut' = [engineOut EXCEPT ![r] = R]
    /\ pc' = [pc EXCEPT ![r] = "exit_with"]
    /\ UNCHANGED <<req, ext, filename, saved_filename, exc, resp,
                   lock, uploads, now,
                   tName, nSaves, nAcquires, nCalls, callPath>>

\* Line 43 in a retry loop: after an exception the engine is called again.
EngineRaiseRetry(r) ==
    /\ pc[r] = "running"
    /\ pc' = [pc EXCEPT ![r] = "call"]
    /\ UNCHANGED <<locals, lock, uploads, now, history>>

\* Line 43: the engine raises.
EngineRaise(r) ==
    /\ pc[r] = "running"
    /\ exc' = [exc EXCEPT ![r] = "EngineError"]
    /\ pc' = [pc EXCEPT ![r] = "exit_with"]
    /\ UNCHANGED <<req, ext, filename, saved_filename, result, resp,
                   lock, uploads, now, history>>

\* lock.acquire() ... lock.release() in place of `with lock:`: an exception
\* skips the release.
ReleaseOnReturnOnly(r) ==
    /\ pc[r] = "exit_with"
    /\ lock' = IF exc[r] = "" THEN FALSE ELSE lock
    /\ pc' = [pc EXCEPT ![r] = IF exc[r] = "" THEN "return" ELSE "raised"]
    /\ UNCHANGED <<locals, uploads, now, history>>

\* lock.acquire() with the release forgotten.
ReleaseForgotten(r) ==
    /\ pc[r] = "exit_with"
    /\ pc' = [pc EXCEPT ![r] = IF exc[r] = "" THEN "return" ELSE "raised"]
    /\ UNCHANGED <<locals, lock, uploads, now, history>>

\* Leaving the `with lock:` block of line 42, by return or by exception:
\* the lock is released.
Release(r) ==
    /\ pc[r] = "exit_with"
    /\ lock' = FALSE
    /\ pc' = [pc EXCEPT ![r] = IF exc[r] = "" THEN "return" ELSE "raised"]
    /\ UNCHANGED <<locals, uploads, now, history>>

\* Line 46 preceded by os.remove(saved_filename): the handler cleans up.
RespondAndCleanup(r) ==
    /\ pc[r] = "return"
    /\ uploads' = [p \in DOMAIN uploads \ {saved_filename[r]} |-> uploads[p]]
    /\ resp' = [resp EXCEPT ![r] = [status |-> 200, body |-> Jsonify(result[r])]]
    /\ pc' = [pc EXCEPT ![r] = "done"]
    /\ UNCHANGED <<req, ext, filename, saved_filename, result, exc,
                   lock, now, history>>

\* Line 46 with result a module-level variable the threads share: the
\* response carries the result of whichever request stored one.
RespondShared(r) ==
    /\ pc[r] = "return"
    /\ \E q \in Requests :
          /\ result[q] # <<>>
          /\ resp' = [resp EXCEPT ![r] =
                         [status |-> 200, body |-> Jsonify(result[q])]]
    /\ pc' = [pc EXCEPT ![r] = "done"]
    /\ UNCHANGED <<req, ext, filename, saved_filename, result, exc,
                   lock, uploads, now, history>>

\* Line 46: return jsonify(result), 200.
Respond(r) ==
    /\ pc[r] = "return"
    /\ resp' = [resp EXCEPT ![r] = [status |-> 200, body |-> Jsonify(result[r])]]
    /\ pc' = [pc EXCEPT ![r] = "done"]
    /\ UNCHANGED <<req, ext, filename, saved_filename, result, exc,
                   lock, uploads, now, history>>

\* An exception leaves transcribe(): no line of it catches one, and the
\* request is answered 500 with the server's error page.
Unhandled(r) ==
    /\ pc[r] = "raised"
    /\ resp' = [resp EXCEPT ![r] = [status |-> 500, body |-> ErrorPage(exc[r])]]
    /\ pc' = [pc EXCEPT ![r] = "done"]
    /\ UNCHANGED <<req, ext, filename, saved_filename, result, exc,
                   lock, uploads, now, history>>

\* A second passes on the wall clock.
Tick ==
    /\ now < T0 + MaxTicks
    /\ now' = now + 1
    /\ UNCHANGED <<pc, locals, lock, uploads, history>>

Next ==
    \/ Tick
    \/ \E r \in Requests :
          \/ Validate(r)
          \/ NameFile(r)
          \/ Save(r)
          \/ SaveFail(r)
          \/ Acquire(r)
          \/ EngineStart(r)
          \/ EngineReturn(r)
          \/ EngineRaise(r)
          \/ Release(r)
          \/ Respond(r)
          \/ Unhandled(r)

Spec == Init /\ [][Next]_vars

\* Every thread that can take a step eventually takes one, every engine call
\* returns or raises, and a thread waiting for the lock is not passed over
\* for ever. Requests need not arrive, the clock need not tick and a write
\* need not fail.
Fairness ==
    \A r \in Requests :
        /\ WF_vars(Validate(r))
        /\ WF_vars(NameFile(r))
        /\ WF_vars(Save(r) \/ SaveFail(r))
        /\ SF_vars(Acquire(r))
        /\ WF_vars(EngineStart(r))
        /\ WF_vars(EngineReturn(r) \/ EngineRaise(r))
        /\ WF_vars(Release(r))
        /\ WF_vars(Respond(r))
        /\ WF_vars(Unhandled(r))

FairSpec == Spec /\ Fairness

\* ------------------------------------------------ the classes of requests
\* The allowed set as the specification states it.
ClaimedExtensions == { <<"m", "4", "a">>, <<"m", "p", "3">>, <<"w", "a", "v">> }

HasDot(n) == \E i \in 1..Len(n) : n[i] = "."

\* The characters after the last '.' of a name.
RECURSIVE Suffix(_)
Suffix(n) ==
    IF Len(n) = 0 \/ n[Len(n)] = "." THEN <<>>
    ELSE Suffix(SubSeq(n, 1, Len(n) - 1)) \o << n[Len(n)] >>

\* The lower-cased extension of each file name of the model.
LowerSuffix == [n \in FileNames |-> Lower(Suffix(n))]

Arrived(r) == pc[r] # "start"
MissingOrEmptyName(rq) == ~rq.hasFile \/ ~rq.hasName \/ rq.name = <<>>
NoExtension(rq) == rq.hasFile /\ rq.hasName /\ rq.name # <<>> /\ ~HasDot(rq.name)
NamedWithDot(rq) == rq.hasFile /\ rq.hasName /\ HasDot(rq.name)
DisallowedExtension(rq) ==
    NamedWithDot(rq) /\ LowerSuffix[rq.name] \notin ClaimedExtensions
AllowedExtension(rq) ==
    NamedWithDot(rq) /\ LowerSuffix[rq.name] \in ClaimedExtensions

\* The request wrote no file, never took the lock and never called the engine.
Untouched(r) ==
    /\ nSaves[r] = 0 /\ nAcquires[r] = 0 /\ nCalls[r] = 0
    /\ ~InWith(r)
    /\ \A p \in DOMAIN uploads : uploads[p] # r

ErrorResponse(status, msg) == [status |-> status, body |-> Jsonify(<<"error", msg>>)]

\* ------------------------------------------------------------------ claims
\* C1: mutual exclusion: in every interleaving of the request threads at
\* most one call of the engine is in flight.
C1_MutualExclusion == ActiveCalls <= 1

\* Two accepted requests contend: one is in the engine, the other waits.
C1_Witness ==
    \E r, q \in Requests : r # q /\ pc[r] = "running" /\ pc[q] = "acquire"

\* C2: release on failure: once the engine call of a request has raised and
\* the request has left the with block, the lock is held only by another
\* request that is inside the block, and when nobody is inside it every
\* waiting request can take it.
C2_ReleaseOnFailure ==
    \A r \in Requests :
        (EngineFailed(r) /\ ~InWith(r)) =>
            /\ lock => \E q \in Requests \ {r} : InWith(q)
            /\ \A q \in Requests :
                  (pc[q] = "acquire" /\ ~\E p \in Requests : InWith(p))
                      => ENABLED Acquire(q)

\* The engine call of one request has raised and the request is unwinding
\* outside the with block, while another request, which therefore took the
\* lock after it, holds the lock with the result of its own engine call.
C2_Witness ==
    \E r, q \in Requests :
        /\ r # q
        /\ EngineFailed(r) /\ pc[r] = "raised"
        /\ pc[q] = "exit_with" /\ exc[q] = "" /\ result[q] \in Results

\* C3: an upload whose extension, lower-cased, is not m4a, mp3 or wav is
\* answered 400 {"error": "Invalid file format"}; it writes no file, never
\* takes the lock and never calls the engine.
C3_DisallowedExtensionRejected ==
    \A r \in Requests :
        (Arrived(r) /\ DisallowedExtension(req[r])) =>
            /\ Untouched(r)
            /\ pc[r] = "done"
            /\ resp[r] = ErrorResponse(400, "Invalid file format")

\* notes.txt was answered while another request had its file stored.
C3_Witness ==
    \E r, q \in Requests :
        /\ pc[r] = "done" /\ DisallowedExtension(req[r])
        /\ Suffix(req[r].name) = <<"t", "x", "t">>
        /\ nSaves[q] = 1

\* C4: a request with no file part, or with an empty or absent file name, is
\* answered 400 with no write to storage, no acquisition of the lock and no
\* engine call anywhere in its run.
C4_MissingNameRejectedFirst ==
    \A r \in Requests :
        (Arrived(r) /\ MissingOrEmptyName(req[r])) =>
            /\ Untouched(r)
            /\ pc[r] = "done"
            /\ resp[r].status = 400
            /\ resp[r].body.mimetype = "application/json"
            /\ resp[r].body.data[1] = "error"

\* A request with the empty name was answered, and so was another request
\* of this class with a different input.
C4_Witness ==
    \E r \in Requests :
        /\ pc[r] = "done"
        /\ req[r].hasFile /\ req[r].hasName /\ req[r].name = <<>>
        /\ \E q \in Requests \ {r} :
              pc[q] = "done" /\ MissingOrEmptyName(req[q]) /\ req[q] # req[r]

\* C5: a request whose non-empty file name has no '.' is answered 400
\* {"error": "Invalid filename"}, never with another status, writes no file
\* and never calls the engine.
C5_NoExtensionIs400 ==
    \A r \in Requests :
        (Arrived(r) /\ NoExtension(req[r])) =>
            /\ Untouched(r)
            /\ pc[r] = "done" => resp[r] = ErrorResponse(400, "Invalid filename")

\* C6: a request whose engine call raised is answered 500 with a JSON error
\* body made by the handler, after one engine call, and never 200.
C6_EngineFailureIsStructured500 ==
    \A r \in Requests :
        (pc[r] = "done" /\ EngineFailed(r)) =>
            /\ nCalls[r] = 1
            /\ resp[r].status = 500
            /\ resp[r].body.mimetype = "application/json"
            /\ resp[r].body.data[1] = "error"

\* C7: round trip: a request whose engine call returned R is answered 200
\* with the JSON of R, and a 200 carries the result of the request's own
\* engine call.
C7_RoundTrip ==
    \A r \in Requests :
        pc[r] = "done" =>
            /\ (nCalls[r] = 1 /\ ~EngineFailed(r)) =>
                  /\ engineOut[r] \in Results
                  /\ resp[r] = [status |-> 200, body |-> Jsonify(engineOut[r])]
            /\ resp[r].status = 200 =>
                  /\ nCalls[r] = 1 /\ engineOut[r] \in Results
                  /\ resp[r].body = Jsonify(engineOut[r])

\* Two requests were answered 200, each with a different result.
C7_Witness ==
    \E r, q \in Requests :
        /\ pc[r] = "done" /\ resp[r].status = 200
        /\ pc[q] = "done" /\ resp[q].status = 200
        /\ engineOut[r] # engineOut[q]

\* The path the specification gives the upload of a request: the upload
\* folder, the seconds of the clock in decimal, '.', the lower-cased extension.
StoredPath(r) ==
    PathJoin(UPLOAD_FOLDER,
             Str(tName[r]) \o <<".">> \o LowerSuffix[req[r].name])

\* The request ended with a failed write to storage.
StorageFailed(r) == exc[r] = "OSError"

\* C8: an upload whose extension is m4a, mp3 or wav in any letter case is
\* accepted (never answered 400), its file is in the upload directory under
\* <seconds>.<lower-cased extension> from the write on, and the engine is
\* called once, with that path.
C8_CaseInsensitiveAccept ==
    \A r \in Requests :
        (Arrived(r) /\ AllowedExtension(req[r])) =>
            /\ resp[r].status # 400
            /\ tName[r] \in {0} \cup (T0..now)
            /\ (pc[r] \in {"acquire", "call", "running", "exit_with", "return"}
                  \/ (pc[r] \in {"raised", "done"} /\ ~StorageFailed(r)))
                  => /\ nSaves[r] = 1
                     /\ StoredPath(r) \in DOMAIN uploads
            /\ nCalls[r] <= 1
            /\ nCalls[r] = 1 => callPath[r] = StoredPath(r)
            /\ (pc[r] = "done" /\ ~StorageFailed(r)) => nCalls[r] = 1

\* clip.WAV was stored as uploads/10.wav and answered 200.
C8_Witness ==
    \E r \in Requests :
        /\ req[r].hasFile /\ req[r].hasName
        /\ req[r].name = <<"c", "l", "i", "p", ".", "W", "A", "V">>
        /\ pc[r] = "done" /\ resp[r].status = 200
        /\ callPath[r] = UPLOAD_FOLDER \o <<"/", "1", "0", ".", "w", "a", "v">>
        /\ callPath[r] \in DOMAIN uploads

\* C9: with fair threads and engine calls that end, a request that waits for
\* the lock takes it, calls the engine once and is answered.
C9_WaitersProgress ==
    \A r \in Requests :
        (pc[r] = "acquire") ~>
            (pc[r] = "done" /\ nAcquires[r] = 1 /\ nCalls[r] = 1
                /\ resp[r].status \in {200, 500})

\* A request waits for the lock while another holds it.
C9_Witness ==
    \E r, q \in Requests :
        r # q /\ pc[r] = "acquire" /\ lock /\ InWith(q) /\ ~ENABLED Acquire(r)

\* The four checks of the validator in the order of the specification: the
\* number of the first one a request fails, 0 when it passes them all.
FirstFailingCheck(rq) ==
    IF ~rq.hasFile THEN 1
    ELSE IF rq.hasName /\ rq.name = <<>> THEN 2
    ELSE IF ~rq.hasName \/ ~HasDot(rq.name) THEN 3
    ELSE IF LowerSuffix[rq.name] \notin ClaimedExtensions THEN 4
    ELSE 0

CheckReason ==
    <<"No file provided", "No file selected", "Invalid filename",
      "Invalid file format">>

\* C10: the answer to a request that fails a check is 400 with the reason of
\* the first check it fails, and a request that passes all four is never
\* answered 400.
C10_FirstFailingCheckDecides ==
    \A r \in Requests :
        pc[r] = "done" =>
            LET k == FirstFailingCheck(req[r]) IN
            /\ k # 0 => resp[r] = ErrorResponse(400, CheckReason[k])
            /\ k = 0 => resp[r].status # 400

\* C11: within one accepted request the order is persist, acquire, engine
\* call, release, respond: the lock is taken only after the write, the engine
\* is called only with the lock taken and the file stored, and a request that
\* has left the with block or has been answered holds the lock no more.
C11_OrderWithinRequest ==
    \A r \in Requests :
        /\ nAcquires[r] >= 1 => nSaves[r] = 1
        /\ nCalls[r] >= 1 => nAcquires[r] = 1
        /\ InWith(r) => lock /\ nAcquires[r] = 1
        /\ pc[r] = "running" =>
              /\ nCalls[r] = 1
              /\ callPath[r] = saved_filename[r]
              /\ callPath[r] \in DOMAIN uploads
        /\ pc[r] \in {"return", "raised", "done"} =>
              (lock => \E q \in Requests \ {r} : InWith(q))
        /\ pc[r] = "return" => nCalls[r] = 1
        /\ resp[r].status = 200 => pc[r] = "done" /\ nCalls[r] = 1

\* A request went through all five steps: it is answered 200 after one
\* write, one acquisition and one engine call, and the lock is free.
C11_Witness ==
    \E r \in Requests :
        /\ pc[r] = "done" /\ resp[r].status = 200
        /\ nSaves[r] = 1 /\ nAcquires[r] = 1 /\ nCalls[r] = 1
        /\ ~lock

\* C12: the lock is the only blocking point: while a request holds it, every
\* other request can take the step it is at (be validated, be answered 400,
\* name and store its file, unwind, be answered), except the step of taking
\* the lock, which is disabled exactly while the lock is held.
C12_OnlyAcquireBlocks ==
    lock =>
        \A r \in Requests :
            /\ pc[r] = "start" =>
                  /\ ENABLED Validate(r)
                  /\ ENABLED (Validate(r) /\ resp'[r].status = 400)
            /\ pc[r] = "name" => ENABLED NameFile(r)
            /\ pc[r] = "save" => ENABLED Save(r)
            /\ pc[r] = "acquire" => ~ENABLED Acquire(r)
            /\ pc[r] = "call" => ENABLED EngineStart(r)
            /\ pc[r] = "exit_with" => ENABLED Release(r)
            /\ pc[r] = "raised" => ENABLED Unhandled(r)
            /\ pc[r] = "return" => ENABLED Respond(r)

\* While one request is in an engine call with the lock, another, which
\* never took the lock, has been answered 400.
C12_Witness ==
    \E q, r \in Requests :
        /\ pc[q] = "running" /\ lock
        /\ pc[r] = "done" /\ resp[r].status = 400
        /\ nAcquires[q] = 1 /\ nAcquires[r] = 0

\* C13: no timeout and no cancellation: in every step in which the engine
\* call of the lock holder does not end, a request waiting for the lock goes
\* on waiting, without an engine call and without a response; so with an
\* engine call that never returns the waiters stay blocked for ever.
C13_WaitersStayBlocked ==
    [][ \A q, r \in Requests :
          (/\ pc[q] = "running" /\ pc'[q] = "running"
           /\ pc[r] = "acquire")
          => /\ pc'[r] = "acquire"
             /\ lock /\ lock'
             /\ nAcquires'[r] = 0 /\ nCalls'[r] = 0
             /\ resp'[r] = NoResponse /\ exc'[r] = "" ]_vars

\* At least one tick of the clock lies between the name of a waiting request and
\* now, and the engine call of the lock holder is still running.
C13_Witness ==
    \E q, r \in Requests :
        /\ pc[q] = "running" /\ pc[r] = "acquire"
        /\ tName[r] = T0 /\ now = T0 + MaxTicks
        /\ resp[r] = NoResponse /\ nCalls[r] = 0

\* C14: two stored uploads have the same file name exactly when they have
\* the same lower-cased extension and the same second of the clock; in every
\* other case their names differ and the two writes went to two files.
C14_StoredNameDistinctness ==
    \A r, q \in Requests :
        (r # q /\ nSaves[r] = 1 /\ nSaves[q] = 1) =>
            /\ saved_filename[r] = saved_filename[q]
                  <=> (/\ LowerSuffix[req[r].name] = LowerSuffix[req[q].name]
                       /\ tName[r] = tName[q])
            /\ saved_filename[r] # saved_filename[q] =>
                  {saved_filename[r], saved_filename[q]} \subseteq DOMAIN uploads

\* clip.WAV and a.wav, named in the same second, were written to one file.
C14_Witness ==
    \E r, q \in Requests :
        /\ nSaves[r] = 1 /\ nSaves[q] = 1
        /\ req[r].name # req[q].name
        /\ tName[r] = tName[q]
        /\ saved_filename[r] = saved_filename[q]
        /\ Cardinality(DOMAIN uploads) = 1

\* C15: a request whose write to storage failed neither takes the lock nor
\* calls the engine nor writes again, and is answered 500; the step in which
\* the write fails leaves the lock and every other request as they were.
C15_StorageFailure ==
    [][ \A r \in Requests :
          /\ StorageFailed(r)' =>
                /\ pc'[r] \in {"raised", "done"}
                /\ nSaves'[r] = 0 /\ nAcquires'[r] = 0 /\ nCalls'[r] = 0
                /\ pc'[r] = "done" => resp'[r].status = 500
                /\ pc'[r] = "raised" => resp'[r] = NoResponse
          /\ (~StorageFailed(r) /\ StorageFailed(r)') =>
                /\ lock' = lock
                /\ \A q \in Requests \ {r} :
                      pc'[q] = pc[q] /\ resp'[q] = resp[q] /\ exc'[q] = exc[q] ]_vars

\* The write of one request failed and the request was answered, while the
\* engine call of another request runs on with the lock.
C15_Witness ==
    \E r, q \in Requests :
        /\ StorageFailed(r) /\ pc[r] = "done" /\ resp[r].status = 500
        /\ pc[q] = "running" /\ lock

\* C16: the upload directory only grows: no step removes or renames a
\* stored file, and the file a request stored is there when the request is
\* answered and ever after.
C16_UploadsAppendOnly ==
    [][ /\ DOMAIN uploads \subseteq DOMAIN uploads'
        /\ \A r \in Requests :
              nSaves'[r] = 1 => saved_filename'[r] \in DOMAIN uploads' ]_vars

\* Two files are stored, and the request of one of them was answered 500
\* after its engine call failed.
C16_Witness ==
    \E r \in Requests :
        /\ pc[r] = "done" /\ EngineFailed(r)
        /\ saved_filename[r] \in DOMAIN uploads
        /\ Cardinality(DOMAIN uploads) = 2

\* C17: a request calls the engine at most once, exactly once when it has
\* taken the lock and left the call, and not at all when it is answered 400;
\* a response, once given, is the only one; and a 200 is given only for an
\* engine call that returned.
C17_AtMostOneCallOneResponse ==
    [][ \A r \in Requests :
          /\ nCalls'[r] <= 1 /\ nAcquires'[r] <= 1
          /\ (nAcquires'[r] = 1 /\ pc'[r] \in {"exit_with", "return", "raised", "done"})
                => nCalls'[r] = 1
          /\ resp'[r].status = 400 => nCalls'[r] = 0 /\ nAcquires'[r] = 0
          /\ resp[r] # NoResponse => resp'[r] = resp[r] /\ pc'[r] = "done"
          /\ resp'[r].status = 200 =>
                /\ nCalls'[r] = 1
                /\ engineOut'[r] \in Results
                /\ ~EngineFailed(r)' ]_vars

\* One request was answered 500 after its one engine call failed, another
\* was answered 400 without any.
C17_Witness ==
    \E r, q \in Requests :
        /\ pc[r] = "done" /\ EngineFailed(r) /\ nCalls[r] = 1
        /\ resp[r].status = 500
        /\ pc[q] = "done" /\ resp[q].status = 400 /\ nCalls[q] = 0

\* Two stored uploads with the same second and the same lower-cased
\* extension.
SameSecondAndExtension(r, q) ==
    /\ tName[r] = tName[q]
    /\ LowerSuffix[req[r].name] = LowerSuffix[req[q].name]

\* C18: own content: when no other stored upload has the second and the
\* extension of a request, the file at the path the engine call of the
\* request was given holds the bytes of that request, from the start of the
\* call to its end.
C18_OwnContent ==
    \A r \in Requests :
        (/\ pc[r] = "running"
         /\ \A q \in Requests \ {r} :
               nSaves[q] = 1 => ~SameSecondAndExtension(r, q))
        => /\ callPath[r] \in DOMAIN uploads
           /\ uploads[callPath[r]] = r

\* An engine call runs on the file of its own request while another request
\* of the same second, with another extension, has stored its file.
C18_Witness ==
    \E r, q \in Requests :
        /\ r # q
        /\ pc[r] = "running" /\ nSaves[q] = 1
        /\ tName[q] = tName[r]
        /\ LowerSuffix[req[r].name] # LowerSuffix[req[q].name]
        /\ uploads[callPath[r]] = r /\ uploads[saved_filename[q]] = q

====
